---------------------------- MODULE Spec2Model ----------------------------
(***************************************************************************)
(* A model of the wisecow "Problem-Statement-2" utilities:                 *)
(*                                                                         *)
(*   log_analyzer.py            LOG_PATTERN, parse_request_line,           *)
(*                              open_maybe_gz, analyze_log_file            *)
(*   system_health_monitor.py   the polling loop of main                   *)
(*                                                                         *)
(* Text is modelled as sequences of one-character strings, so that the     *)
(* regular expression, str.strip, str.split and urlparse are computed on   *)
(* the characters of a line and not assumed.  A Counter is modelled as the *)
(* sequence of its <<key, count>> items in insertion order, which is the   *)
(* order a Python dict keeps and the order most_common breaks ties by.     *)
(***************************************************************************)
EXTENDS Integers, Sequences, FiniteSets, TLC

VARIABLES
    \* ---- log_analyzer.analyze_log_file ----
    file,            \* the lines of the input file (without line ends)
    top_n,           \* the caller's top_n
    pc,              \* "start" | "reading" | "done" | "failed"
    pos,             \* number of lines the for loop has taken from fh
    total,
    skipped,
    status_counter,
    ip_counter,
    path_counter,
    agent_counter,
    report,          \* <<>> until analyze_log_file returns, then <<report>>
    error,           \* "none" or the exception that left analyze_log_file
    opens,           \* calls of open_maybe_gz made so far
    \* ---- system_health_monitor.main ----
    m_pc,            \* "start" | "loop" | "sleeping" | "exited"
    iterations,      \* args.iterations
    i,               \* the loop variable of main
    exceeded_any,
    exit_code,       \* -1 while running, then the status given to sys.exit
    checks,          \* number of loop bodies run so far
    sleeps,          \* number of time.sleep calls made so far
    peak             \* per metric, the largest value sampled so far

avars == <<file, top_n, pc, pos, total, skipped, status_counter, ip_counter,
           path_counter, agent_counter, report, error, opens>>
mvars == <<m_pc, iterations, i, exceeded_any, exit_code, checks, sleeps, peak>>
vars == <<avars, mvars>>

-----------------------------------------------------------------------------
(* Bounds of the model.                                                    *)

MaxLines == 3
MaxRepeat == 1
MaxTopN == 2
MaxIter == 2

-----------------------------------------------------------------------------
(* Characters and text.                                                    *)

Q == "\""
SP == <<" ">>
Dash == <<"-">>

Min(S) == CHOOSE x \in S : \A y \in S : x <= y
Max(S) == CHOOSE x \in S : \A y \in S : x >= y

IsSpace(c) == c \in {" ", "\t"}
IsDigit(c) == c \in {"0", "1", "2", "3", "4", "5", "6", "7", "8", "9"}
IsAlpha(c) == c \in {"a", "b", "c", "d", "e", "f", "g", "h", "i", "j", "k",
                     "l", "m", "n", "o", "p", "q", "r", "s", "t", "u", "v",
                     "w", "x", "y", "z", "A", "B", "C", "D", "E", "F", "G",
                     "H", "I", "J", "K", "L", "M", "N", "O", "P", "Q", "R",
                     "S", "T", "U", "V", "W", "X", "Y", "Z"}

\* The character at index k, or "" past either end.
At(l, k) == IF k \in 1..Len(l) THEN l[k] ELSE ""

\* The first index >= k of character c in l, or 0 (str.find, 1-based).
Find(l, c, k) ==
    LET S == {j \in k..Len(l) : l[j] = c}
    IN IF S = {} THEN 0 ELSE Min(S)

\* The last index of character c in l, or 0 (str.rfind, 1-based).
RFind(l, c) ==
    LET S == {j \in 1..Len(l) : l[j] = c}
    IN IF S = {} THEN 0 ELSE Max(S)

\* The index just past the longest whitespace-free run that starts at k.
RunEnd(l, k) ==
    Min({j \in k..(Len(l) + 1) : j = Len(l) + 1 \/ IsSpace(l[j])})

\* str.strip(): leading and trailing whitespace removed.
Strip(l) ==
    LET S == {k \in 1..Len(l) : ~IsSpace(l[k])}
    IN IF S = {} THEN <<>> ELSE SubSeq(l, Min(S), Max(S))

\* str.split(): the whitespace-separated tokens of l, from index k on.
RECURSIVE SplitFrom(_, _)
SplitFrom(l, k) ==
    LET S == {j \in k..Len(l) : ~IsSpace(l[j])}
    IN IF S = {} THEN <<>>
       ELSE LET b == Min(S)
                e == RunEnd(l, b)
            IN <<SubSeq(l, b, e - 1)>> \o SplitFrom(l, e)

Split(l) == SplitFrom(l, 1)

-----------------------------------------------------------------------------
(* LOG_PATTERN.search(line).                                               *)
(*                                                                         *)
(* The pattern is matched the way a backtracking engine matches it: the    *)
(* leftmost start wins; each \S+ followed by a space can only be the whole *)
(* whitespace-free run; the lazy groups time and request take the shortest *)
(* text after which the rest of the mandatory part still matches; size is  *)
(* greedy; the trailing referrer/agent group is taken when it matches.     *)

\* `\S+ ` at k: the index just past the space, or 0 when it does not match.
TokenTo(l, k, e) == IF e > k /\ At(l, e) = " " THEN e + 1 ELSE 0

Token(l, k) == IF k \in 1..Len(l) THEN TokenTo(l, k, RunEnd(l, k)) ELSE 0

\* `" (?P<status>\d{3}) (?P<size>\S+)` with the closing quote at r.
TailAt(l, r) ==
    /\ At(l, r) = Q
    /\ At(l, r + 1) = " "
    /\ IsDigit(At(l, r + 2)) /\ IsDigit(At(l, r + 3)) /\ IsDigit(At(l, r + 4))
    /\ At(l, r + 5) = " "
    /\ r + 6 <= Len(l) /\ ~IsSpace(At(l, r + 6))

\* The ends of (?P<request>.*?) that let the mandatory part match from q.
ReqEnds(l, q) == {r \in q..Len(l) : TailAt(l, r)}

\* The ends of (?P<time>.*?) after the "[" at b: `\] "` and a request follow.
TimeEnds(l, b) ==
    {t \in (b + 1)..Len(l) :
        /\ At(l, t) = "]" /\ At(l, t + 1) = " " /\ At(l, t + 2) = Q
        /\ ReqEnds(l, t + 3) # {}}

\* The ends of (?P<referrer>.*?) when the optional group starts at z.
RefEnds(l, z) ==
    {f \in (z + 2)..Len(l) :
        /\ At(l, f) = Q /\ At(l, f + 1) = " " /\ At(l, f + 2) = Q
        /\ Find(l, Q, f + 3) # 0}

\* Whether `(?: "(?P<referrer>.*?)" "(?P<agent>.*?)")?` takes its group at z.
HasPair(l, z) == At(l, z) = " " /\ At(l, z + 1) = Q /\ RefEnds(l, z) # {}

\* The value of a failed search.  paired says whether referrer and agent are
\* groups that took part in the match (None in Python when they did not).
NoMatch ==
    [matched |-> FALSE, ip |-> <<>>, time |-> <<>>, request |-> <<>>,
     status |-> <<>>, size |-> <<>>, paired |-> FALSE, referrer |-> <<>>,
     agent |-> <<>>]

\* The groups of a match: ip is l[s..e-1]; "[" is at b; the time ends at t,
\* the request at r, the size at z; the optional group, when taken, has the
\* referrer end at f and the agent end at a.
Groups(l, s, e, b, t, r, z, paired, f, a) ==
    [matched |-> TRUE,
     ip |-> SubSeq(l, s, e - 1),
     time |-> SubSeq(l, b + 1, t - 1),
     request |-> SubSeq(l, t + 3, r - 1),
     status |-> SubSeq(l, r + 2, r + 4),
     size |-> SubSeq(l, r + 6, z - 1),
     paired |-> paired,
     referrer |-> IF paired THEN SubSeq(l, z + 2, f - 1) ELSE <<>>,
     agent |-> IF paired THEN SubSeq(l, f + 3, a - 1) ELSE <<>>]

MatchPair(l, s, e, b, t, r, z, f) ==
    Groups(l, s, e, b, t, r, z, TRUE, f, Find(l, Q, f + 3))

MatchSize(l, s, e, b, t, r, z) ==
    IF HasPair(l, z)
    THEN MatchPair(l, s, e, b, t, r, z, Min(RefEnds(l, z)))
    ELSE Groups(l, s, e, b, t, r, z, FALSE, 0, 0)

MatchRequest(l, s, e, b, t, r) == MatchSize(l, s, e, b, t, r, RunEnd(l, r + 6))

MatchTime(l, s, e, b, t) == MatchRequest(l, s, e, b, t, Min(ReqEnds(l, t + 3)))

MatchBracket(l, s, e, b) ==
    IF b = 0 \/ At(l, b) # "[" \/ TimeEnds(l, b) = {}
    THEN NoMatch
    ELSE MatchTime(l, s, e, b, Min(TimeEnds(l, b)))

\* `\S+ \S+ ` from k, the index just past it, or 0.
TwoTokens(l, k) == IF Token(l, k) = 0 THEN 0 ELSE Token(l, Token(l, k))

MatchIp(l, s, e) ==
    IF e = 0 THEN NoMatch ELSE MatchBracket(l, s, e - 1, TwoTokens(l, e))

\* LOG_PATTERN.match(l, s): the match that starts at index s.
MatchAt(l, s) == MatchIp(l, s, Token(l, s))

FirstMatch(l, S) == IF S = {} THEN NoMatch ELSE MatchAt(l, Min(S))

LOG_PATTERN_search(l) ==
    FirstMatch(l, {s \in 1..Len(l) : MatchAt(l, s).matched})

-----------------------------------------------------------------------------
(* urllib.parse.urlparse(raw_url).path, and parse_request_line.            *)

SchemeChars == {"+", "-", "."}
IsSchemeChar(c) == IsAlpha(c) \/ IsDigit(c) \/ c \in SchemeChars

\* The schemes of urllib.parse.uses_params that the lines can spell.
UsesParams == {<<>>, <<"h", "t", "t", "p">>, <<"f", "t", "p">>}

\* urlsplit's scheme: the text before the first ":" when it is a scheme.
SchemeEnd(u) ==
    LET c == Find(u, ":", 1)
    IN IF c > 1 /\ IsAlpha(u[1]) /\ \A k \in 1..(c - 1) : IsSchemeChar(u[k])
       THEN c ELSE 0

\* _splitnetloc(url, 2): the index of the first of "/?#" from 3 on, or the end.
NetlocEnd(u) ==
    Min({Len(u) + 1}
        \cup {j \in 3..Len(u) : u[j] \in {"/", "?", "#"}})

\* The text before the first occurrence of c, or all of it.
Before(u, c) == IF Find(u, c, 1) = 0 THEN u ELSE SubSeq(u, 1, Find(u, c, 1) - 1)

\* _splitparams(url)[0].
SplitParams(u) ==
    LET s == RFind(u, "/")
        p == Find(u, ";", IF s = 0 THEN 1 ELSE s)
    IN IF p = 0 THEN u ELSE SubSeq(u, 1, p - 1)

\* _check_bracketed_host(hostname) passes: an IPv6 address has a ":" and an
\* IPvFuture address starts with "v"; no other text between brackets passes.
\* (Which texts with a ":" are addresses is not modelled: no line has one.)
BracketedHostOk(host) == Find(host, ":", 1) # 0 \/ At(host, 1) = "v"

\* The path of the url left after the netloc: fragment, query and, for the
\* schemes that use them, the parameters of the last segment are cut off.
PathOf(scheme, u) ==
    IF scheme \in UsesParams /\ Find(u, ";", 1) # 0 THEN SplitParams(u) ELSE u

\* urlsplit's checks of a netloc with brackets.
NetlocRaises(netloc, open, close) ==
    \/ (open /\ ~close) \/ (close /\ ~open)
    \/ /\ open /\ close
       /\ ~BracketedHostOk(
             Before(SubSeq(netloc, Find(netloc, "[", 1) + 1, Len(netloc)), "]"))

\* urlsplit after the scheme: u starts with "//" and its netloc ends before e.
SplitNetloc(scheme, u, e) ==
    [raises |-> NetlocRaises(SubSeq(u, 3, e - 1),
                             Find(SubSeq(u, 3, e - 1), "[", 1) # 0,
                             Find(SubSeq(u, 3, e - 1), "]", 1) # 0),
     path |-> PathOf(scheme, Before(Before(SubSeq(u, e, Len(u)), "#"), "?"))]

AfterScheme(scheme, u) ==
    IF At(u, 1) = "/" /\ At(u, 2) = "/"
    THEN SplitNetloc(scheme, u, NetlocEnd(u))
    ELSE [raises |-> FALSE, path |-> PathOf(scheme, Before(Before(u, "#"), "?"))]

SplitScheme(url, c) ==
    IF c = 0 THEN AfterScheme(<<>>, url)
    ELSE AfterScheme(SubSeq(url, 1, c - 1), SubSeq(url, c + 1, Len(url)))

\* urlparse(raw_url): [raises |-> ValueError?, path |-> its .path].
urlparse(raw_url) == SplitScheme(raw_url, SchemeEnd(raw_url))

Parsed(parts, u) ==
    [none |-> FALSE, raises |-> u.raises, method |-> parts[1], path |-> u.path]

TwoParts(parts) ==
    IF Len(parts) >= 2
    THEN Parsed(parts, urlparse(parts[2]))
    ELSE [none |-> TRUE, raises |-> FALSE, method |-> <<>>, path |-> <<>>]

\* parse_request_line(request).  none is the (None, None) return; raises is
\* the ValueError that urlparse lets escape.
parse_request_line(request) == TwoParts(Split(request))

-----------------------------------------------------------------------------
(* The lines the input files are made of.                                  *)

Quoted(s) == <<Q>> \o s \o <<Q>>

\* `<ip> - - [t] ` : client address, identd, user and timestamp.
Front(ip) == <<ip, " ", "-", " ", "-", " ", "[", "t", "]", " ">>

S200 == <<"2", "0", "0">>
S404 == <<"4", "0", "4">>

\* h - - [t] "G /a H" 200 5 "r" "u"
LineFull ==
    Front("h") \o Quoted(<<"G", " ", "/", "a", " ", "H">>) \o SP \o S200 \o SP
    \o <<"5">> \o SP \o Quoted(<<"r">>) \o SP \o Quoted(<<"u">>)

\* k - - [t] "G http://k/b?q H" 404 5          (no referrer/agent pair)
LineNoPair ==
    Front("k") \o Quoted(<<"G", " ", "h", "t", "t", "p", ":", "/", "/", "k",
                           "/", "b", "?", "q", " ", "H">>)
    \o SP \o S404 \o SP \o <<"5">>

\* h - - [t] "G ?q H" 404 - "" ""              (empty path, empty agent)
LineEmptyAgent ==
    Front("h") \o Quoted(<<"G", " ", "?", "q", " ", "H">>) \o SP \o S404 \o SP
    \o <<"-">> \o SP \o Quoted(<<>>) \o SP \o Quoted(<<>>)

\* x k - - [t] "G" 200 5 "r" "v"               (leading text, one token)
LineLeading ==
    <<"x", " ">> \o Front("k") \o Quoted(<<"G">>) \o SP \o S200 \o SP
    \o <<"5">> \o SP \o Quoted(<<"r">>) \o SP \o Quoted(<<"v">>)

\* h - - [t] "G //[ H" 200 5                   (urlparse raises ValueError)
LineBadUrl ==
    Front("h") \o Quoted(<<"G", " ", "/", "/", "[", " ", "H">>) \o SP \o S200
    \o SP \o <<"5">>

\* h - - [t] G /a H 200 5                      (request line not quoted)
LineNoQuotes ==
    Front("h") \o <<"G", " ", "/", "a", " ", "H">> \o SP \o S200 \o SP
    \o <<"5">>

\* a line of whitespace only
LineBlank == <<" ", "\t">>

Lines ==
    {LineFull, LineNoPair, LineEmptyAgent, LineLeading, LineBadUrl,
     LineNoQuotes, LineBlank}

\* c - - [t] "G /c H" 200 5 "r" "c" : client c asks for /c with user agent c.
AgentLine(c) ==
    Front(c) \o Quoted(<<"G", " ", "/", c, " ", "H">>) \o SP \o S200 \o SP
    \o <<"5">> \o SP \o Quoted(<<"r">>) \o SP \o Quoted(<<c>>)

AgentNames == <<"a", "b", "c", "d", "e", "f">>

AllLines == Lines \cup {AgentLine(AgentNames[k]) : k \in DOMAIN AgentNames}

\* The strip, the search and the request parse are functions of the text
\* alone: they are tabulated once for the texts the lines give rise to.
StripMemo == [raw \in AllLines |-> Strip(raw)]

SearchMemo == [line \in {Strip(raw) : raw \in AllLines} |-> LOG_PATTERN_search(line)]

ParseMemo ==
    [request \in {SearchMemo[line].request : line \in DOMAIN SearchMemo}
        |-> parse_request_line(request)]

-----------------------------------------------------------------------------
(* collections.Counter: the items <<key, count>> in insertion order.       *)

Keys(c) == {c[k][1] : k \in DOMAIN c}

\* The index of key in c (key must be in c).
IndexOf(c, key) == CHOOSE k \in DOMAIN c : c[k][1] = key

\* c.get(key, 0), which is also what c[key] reads.
CounterGet(c, key) == IF key \in Keys(c) THEN c[IndexOf(c, key)][2] ELSE 0

\* CounterInc, written `c[key] = 1`: the count is set, not added to.
CounterIncOnce(c, key) ==
    IF key \in Keys(c)
    THEN [c EXCEPT ![IndexOf(c, key)] = <<key, 1>>]
    ELSE Append(c, <<key, 1>>)

\* c[key] += 1: a new key goes to the end, an old one keeps its place.
CounterInc(c, key) ==
    IF key \in Keys(c)
    THEN [c EXCEPT ![IndexOf(c, key)] = <<key, @[2] + 1>>]
    ELSE Append(c, <<key, 1>>)

\* sum(c.values())
RECURSIVE CounterSum(_)
CounterSum(c) == IF c = <<>> THEN 0 ELSE c[1][2] + CounterSum(Tail(c))

\* The place of item k in sorted(c.items(), key=itemgetter(1), reverse=True):
\* a stable sort, so equal counts keep the order of the items.
Place(c, k) ==
    1 + Cardinality({j \in DOMAIN c :
                        c[j][2] > c[k][2] \/ (c[j][2] = c[k][2] /\ j < k)})

SortedByCount(c) ==
    [p \in DOMAIN c |-> c[CHOOSE k \in DOMAIN c : Place(c, k) = p]]

\* most_common, written sorted(...)[:n]: a negative n drops the last items.
most_common_slice(c, n) ==
    SubSeq(SortedByCount(c), 1,
           IF n < 0 THEN Len(c) + n ELSE IF n < Len(c) THEN n ELSE Len(c))

\* c.most_common(n) for an integer n: heapq.nlargest(n, c.items(), key=count),
\* which is [] for n <= 0 and sorted(..., reverse=True)[:n] otherwise.
most_common(c, n) ==
    IF n <= 0 THEN <<>>
    ELSE SubSeq(SortedByCount(c), 1, IF n < Len(c) THEN n ELSE Len(c))

-----------------------------------------------------------------------------
(* analyze_log_file.                                                       *)

\* The length of the user-agent list: agent_counter.most_common(5).
TopAgents == 5

S404Key == S404

\* The local state of the loop: the two counters and the four tables.
Aggregate ==
    [total |-> total, skipped |-> skipped, status |-> status_counter,
     ip |-> ip_counter, path |-> path_counter, agent |-> agent_counter,
     error |-> error]

EmptyAggregate ==
    [total |-> 0, skipped |-> 0, status |-> <<>>, ip |-> <<>>, path |-> <<>>,
     agent |-> <<>>, error |-> "none"]

\* m.group('agent') or '-': None and the empty string are both falsy.
AgentKey(m) == IF m.paired /\ m.agent # <<>> THEN m.agent ELSE Dash

\* p or '-' after method, p = parse_request_line(req).
PathKey(pr) == IF pr.none \/ pr.path = <<>> THEN Dash ELSE pr.path

\* Lines 60-70: the line matched, with m the match and pr the parsed request.
Matched(st, m, pr) ==
    IF pr.raises
    THEN [st EXCEPT !.total = @ + 1, !.error = "ValueError"]
    ELSE [st EXCEPT !.total = @ + 1,
                    !.status = CounterInc(@, m.status),
                    !.ip = CounterInc(@, m.ip),
                    !.path = CounterInc(@, PathKey(pr)),
                    !.agent = CounterInc(@, AgentKey(m))]

\* Searched, forgetting `skipped += 1`: an unmatched line is dropped.
SearchedDrop(st, m) ==
    IF ~m.matched THEN st
    ELSE Matched(st, m, ParseMemo[m.request])

\* Searched, with `total += 1` moved above the test of the match.
SearchedCountsAll(st, m) ==
    IF ~m.matched THEN [st EXCEPT !.total = @ + 1, !.skipped = @ + 1]
    ELSE Matched(st, m, ParseMemo[m.request])

\* Searched, raising on a line that does not match instead of skipping it.
SearchedAbort(st, m) ==
    IF ~m.matched THEN [st EXCEPT !.error = "ValueError"]
    ELSE Matched(st, m, ParseMemo[m.request])

\* Lines 56-59: the search, and the skip of a line it does not match.
Searched(st, m) ==
    IF ~m.matched THEN [st EXCEPT !.skipped = @ + 1]
    ELSE Matched(st, m, ParseMemo[m.request])

\* Lines 53-55: the strip, and the skip of a blank line.
Stripped(st, line) ==
    IF line = <<>> THEN st ELSE Searched(st, SearchMemo[line])

\* One pass of the body of `for line in fh` on the raw line.
LoopBody(st, raw) == Stripped(st, StripMemo[raw])

\* BuildReport, looking the 404 count up under the integer 404: the keys of
\* status_counter are strings, so the default 0 is what it finds.
BuildReportIntKey ==
    [total_requests |-> total,
     skipped_lines |-> skipped,
     status_counts |-> status_counter,
     top_404 |-> 0,
     top_paths |-> most_common(path_counter, top_n),
     top_ips |-> most_common(ip_counter, top_n),
     top_user_agents |-> most_common(agent_counter, TopAgents)]

\* The whole loop on a sequence of raw lines, from the state st: it stops at
\* the line whose request makes urlparse raise.
RECURSIVE Fold(_, _)
Fold(st, lines) ==
    IF lines = <<>> \/ st.error # "none" THEN st
    ELSE Fold(LoopBody(st, Head(lines)), Tail(lines))

\* The report dictionary built after the loop.
BuildReport ==
    [total_requests |-> total,
     skipped_lines |-> skipped,
     status_counts |-> status_counter,
     top_404 |-> CounterGet(status_counter, S404Key),
     top_paths |-> most_common(path_counter, top_n),
     top_ips |-> most_common(ip_counter, top_n),
     top_user_agents |-> most_common(agent_counter, TopAgents)]

\* open_maybe_gz(path) returns the file object.
OpenOk ==
    /\ pc = "start"
    /\ pc' = "reading"
    /\ opens' = opens + 1
    /\ UNCHANGED <<file, top_n, pos, total, skipped, status_counter,
                   ip_counter, path_counter, agent_counter, report, error>>

\* open_maybe_gz(path) raises: the path is missing or unreadable.
OpenFails ==
    /\ pc = "start"
    /\ pc' = "failed"
    /\ error' = "OSError"
    /\ opens' = opens + 1
    /\ UNCHANGED <<file, top_n, pos, total, skipped, status_counter,
                   ip_counter, path_counter, agent_counter, report>>

\* ReadFails, with the error caught around the loop: the lines read so far
\* are reported.
ReadFailsPartial ==
    /\ pc = "reading"
    /\ pc' = "done"
    /\ report' = <<BuildReport>>
    /\ UNCHANGED <<file, top_n, pos, total, skipped, status_counter,
                   ip_counter, path_counter, agent_counter, error, opens>>

\* The iterator fh raises while reading or decompressing the next line.
ReadFails ==
    /\ pc = "reading"
    /\ pc' = "failed"
    /\ error' = "OSError"
    /\ UNCHANGED <<file, top_n, pos, total, skipped, status_counter,
                   ip_counter, path_counter, agent_counter, report, opens>>

\* The for loop takes the next line and runs its body on it.
ForLine ==
    /\ pc = "reading"
    /\ pos < Len(file)
    /\ \E st \in {LoopBody(Aggregate, file[pos + 1])} :
          /\ total' = st.total
          /\ skipped' = st.skipped
          /\ status_counter' = st.status
          /\ ip_counter' = st.ip
          /\ path_counter' = st.path
          /\ agent_counter' = st.agent
          /\ error' = st.error
          /\ pc' = IF st.error = "none" THEN "reading" ELSE "failed"
    /\ pos' = pos + 1
    /\ UNCHANGED <<file, top_n, report, opens>>

\* fh is exhausted: the report is built and returned.
Return ==
    /\ pc = "reading"
    /\ pos = Len(file)
    /\ report' = <<BuildReport>>
    /\ pc' = "done"
    /\ UNCHANGED <<file, top_n, pos, total, skipped, status_counter,
                   ip_counter, path_counter, agent_counter, error, opens>>

\* All sequences over S of length at most n.
RECURSIVE SeqsUpTo(_, _)
SeqsUpTo(S, n) ==
    IF n = 0 THEN {<<>>}
    ELSE SeqsUpTo(S, n - 1)
         \cup {Append(q, x) : q \in {r \in SeqsUpTo(S, n - 1) : Len(r) = n - 1},
                              x \in S}

RECURSIVE Repeat(_, _)
Repeat(x, n) == IF n = 0 THEN <<>> ELSE <<x>> \o Repeat(x, n - 1)

\* The six agent lines, starting from the k-th and wrapping around.
AgentRound(k) ==
    [j \in DOMAIN AgentNames |->
        AgentLine(AgentNames[((k + j - 2) % Len(AgentNames)) + 1])]

\* Every file of at most MaxLines lines.
ShortFiles == SeqsUpTo(Lines, MaxLines)

\* Files with more than TopAgents user agents: a round of the six agent
\* lines, then one of them up to MaxRepeat more times.
LongFiles ==
    {AgentRound(k) \o Repeat(AgentLine(AgentNames[j]), n) :
        k \in DOMAIN AgentNames, j \in DOMAIN AgentNames, n \in 0..MaxRepeat}

TopNs == (-1)..MaxTopN

-----------------------------------------------------------------------------
(* system_health_monitor.main.                                             *)

\* The defaults of --cpu-threshold, --mem-threshold, --disk-threshold and
\* --proc-threshold.
cpu_threshold == 80
mem_threshold == 85
disk_threshold == 90
proc_threshold == 500

\* The values a metric is sampled from: just below, at and just above t.
Around(t) == (t - 1)..(t + 1)

\* Status, comparing with >= : a metric at its threshold is reported.
StatusAtLeast(cpu, mem, disk, procs) ==
    (IF cpu >= cpu_threshold THEN <<"CPU">> ELSE <<>>)
    \o (IF mem >= mem_threshold THEN <<"MEM">> ELSE <<>>)
    \o (IF disk >= disk_threshold THEN <<"DISK">> ELSE <<>>)
    \o (IF procs >= proc_threshold THEN <<"PROCS">> ELSE <<>>)

\* The list `status` of one check: one entry per metric over its threshold.
Status(cpu, mem, disk, procs) ==
    (IF cpu > cpu_threshold THEN <<"CPU">> ELSE <<>>)
    \o (IF mem > mem_threshold THEN <<"MEM">> ELSE <<>>)
    \o (IF disk > disk_threshold THEN <<"DISK">> ELSE <<>>)
    \o (IF procs > proc_threshold THEN <<"PROCS">> ELSE <<>>)

\* `if status: exceeded_any = True`
Exceeded(old, status) == IF status # <<>> THEN TRUE ELSE old

\* `if i < args.iterations: time.sleep(args.interval)`
SleepsAfter(k, n) == k < n

Larger(x, y) == IF x > y THEN x ELSE y

\* psutil is missing and --simulate was not given: sys.exit(2).
NoPsutil ==
    /\ m_pc = "start"
    /\ m_pc' = "exited"
    /\ exit_code' = 2
    /\ UNCHANGED <<iterations, i, exceeded_any, checks, sleeps, peak>>

\* exceeded_any = False, and the for loop starts at i = 1.
EnterLoop ==
    /\ m_pc = "start"
    /\ m_pc' = "loop"
    /\ i' = 1
    /\ exceeded_any' = FALSE
    /\ UNCHANGED <<iterations, exit_code, checks, sleeps, peak>>

\* One body of the for loop, up to the call of time.sleep.
Check ==
    /\ m_pc = "loop"
    /\ i <= iterations
    /\ \E cpu \in Around(cpu_threshold), mem \in Around(mem_threshold),
          disk \in Around(disk_threshold), procs \in Around(proc_threshold) :
          /\ exceeded_any' = Exceeded(exceeded_any, Status(cpu, mem, disk, procs))
          /\ peak' = [cpu |-> Larger(peak.cpu, cpu),
                      memory |-> Larger(peak.memory, mem),
                      disk |-> Larger(peak.disk, disk),
                      processes |-> Larger(peak.processes, procs)]
    /\ checks' = checks + 1
    /\ IF SleepsAfter(i, iterations)
       THEN m_pc' = "sleeping" /\ sleeps' = sleeps + 1 /\ i' = i
       ELSE m_pc' = "loop" /\ sleeps' = sleeps /\ i' = i + 1
    /\ UNCHANGED <<iterations, exit_code>>

\* time.sleep returns and the loop goes on to the next i.
WakeUp ==
    /\ m_pc = "sleeping"
    /\ m_pc' = "loop"
    /\ i' = i + 1
    /\ UNCHANGED <<iterations, exceeded_any, exit_code, checks, sleeps, peak>>

\* The loop is over: sys.exit(1) if exceeded_any else sys.exit(0).
Exit ==
    /\ m_pc = "loop"
    /\ i > iterations
    /\ m_pc' = "exited"
    /\ exit_code' = IF exceeded_any THEN 1 ELSE 0
    /\ UNCHANGED <<iterations, i, exceeded_any, checks, sleeps, peak>>

MonitorIdle ==
    /\ m_pc = "start" /\ iterations = 0 /\ i = 1 /\ exceeded_any = FALSE
    /\ exit_code = -1 /\ checks = 0 /\ sleeps = 0
    /\ peak = [cpu |-> 0, memory |-> 0, disk |-> 0, processes |-> 0]

AnalyzerStart ==
    /\ pc = "start" /\ pos = 0 /\ total = 0 /\ skipped = 0
    /\ status_counter = <<>> /\ ip_counter = <<>> /\ path_counter = <<>>
    /\ agent_counter = <<>>
    /\ report = <<>> /\ error = "none" /\ opens = 0

\* analyze_log_file is called on any of the files with any top_n.
Init ==
    /\ file \in ShortFiles \cup LongFiles
    /\ top_n \in TopNs
    /\ AnalyzerStart
    /\ MonitorIdle

Next ==
    \/ OpenOk /\ UNCHANGED mvars
    \/ OpenFails /\ UNCHANGED mvars
    \/ ReadFails /\ UNCHANGED mvars
    \/ ForLine /\ UNCHANGED mvars
    \/ Return /\ UNCHANGED mvars

Spec == Init /\ [][Next]_vars

\* analyze_log_file is called on a short file with the default top_n.
MergeInit ==
    /\ file \in ShortFiles
    /\ top_n = 10
    /\ AnalyzerStart
    /\ MonitorIdle

MergeSpec == MergeInit /\ [][Next]_vars

\* The health monitor is started with any number of iterations.
MonitorInit ==
    /\ file = <<>> /\ top_n = 10 /\ AnalyzerStart
    /\ m_pc = "start" /\ iterations \in (-1)..MaxIter /\ i = 1
    /\ exceeded_any = FALSE /\ exit_code = -1 /\ checks = 0 /\ sleeps = 0
    /\ peak = [cpu |-> 0, memory |-> 0, disk |-> 0, processes |-> 0]

MonitorNext ==
    \/ NoPsutil /\ UNCHANGED avars
    \/ EnterLoop /\ UNCHANGED avars
    \/ Check /\ UNCHANGED avars
    \/ WakeUp /\ UNCHANGED avars
    \/ Exit /\ UNCHANGED avars

MonitorSpec == MonitorInit /\ [][MonitorNext]_vars

-----------------------------------------------------------------------------
(* What the claims speak of.                                               *)

Least(x, y) == IF x < y THEN x ELSE y
Most(x, y) == IF x > y THEN x ELSE y

\* A raw line with nothing but whitespace in it.
IsBlankLine(raw) == \A k \in DOMAIN raw : IsSpace(raw[k])

\* What a raw line is to the loop: its match, whether the match is counted
\* (its request parses), and the keys it then adds to the tables.
LineMemo ==
    [raw \in AllLines |->
        [match |-> SearchMemo[Strip(raw)],
         counted |-> /\ SearchMemo[Strip(raw)].matched
                     /\ ~ParseMemo[SearchMemo[Strip(raw)].request].raises,
         path |-> PathKey(ParseMemo[SearchMemo[Strip(raw)].request]),
         ip |-> SearchMemo[Strip(raw)].ip,
         agent |-> AgentKey(SearchMemo[Strip(raw)])]]

\* The match of a raw line.
MatchOf(raw) == LineMemo[raw].match

\* The raw line matches the grammar.
Matches(raw) == MatchOf(raw).matched

\* The raw line matches and its request parses: the line is counted.
Counted(raw) == LineMemo[raw].counted

\* The step is one pass of the loop body, on line file[pos + 1].
TakesLine == pc = "reading" /\ pos' = pos + 1

\* Between the tables c and d, key has one more and every other key the same.
IncOne(c, d, key) ==
    /\ CounterGet(d, key) = CounterGet(c, key) + 1
    /\ \A x \in (Keys(c) \cup Keys(d)) \ {key} : CounterGet(d, x) = CounterGet(c, x)

TablesUnchanged ==
    UNCHANGED <<status_counter, ip_counter, path_counter, agent_counter>>

\* The key a counted line adds to the table of the given kind.
KeyIn(kind, raw) == LineMemo[raw][kind]

\* The places in the file of the counted lines with this key.
Hits(kind, key) ==
    {k \in 1..Len(file) : Counted(file[k]) /\ KeyIn(kind, file[k]) = key}

SeenKeys(kind) ==
    {KeyIn(kind, file[k]) : k \in {j \in 1..Len(file) : Counted(file[j])}}

\* x comes before y: more lines, or as many and first seen earlier.
Outranks(kind, x, y) ==
    \/ Cardinality(Hits(kind, x)) > Cardinality(Hits(kind, y))
    \/ /\ Cardinality(Hits(kind, x)) = Cardinality(Hits(kind, y))
       /\ Min(Hits(kind, x)) < Min(Hits(kind, y))

\* Entry p of the list is the key with p - 1 keys before it, with its count.
IsRanked(list, kind) ==
    \A p \in DOMAIN list :
        /\ list[p][1] \in SeenKeys(kind)
        /\ list[p][2] = Cardinality(Hits(kind, list[p][1]))
        /\ Cardinality({y \in SeenKeys(kind) : Outranks(kind, y, list[p][1])}) = p - 1

\* The list has n entries, or all the keys when there are fewer than n.
HasFirst(list, n, kind) ==
    \/ Len(list) = n
    \/ Len(list) = Cardinality(SeenKeys(kind)) /\ Len(list) <= n

-----------------------------------------------------------------------------
(* C1: after any prefix of the lines, total_requests + skipped_lines is    *)
(* the number of lines taken so far that are not blank.                    *)
C1_NonBlankLinesCounted ==
    total + skipped = Cardinality({k \in 1..pos : ~IsBlankLine(file[k])})

\* A returned report of a file with a blank, an unmatched and a matched line.
C1_Witness ==
    /\ pc = "done" /\ pos = 3 /\ total = 1 /\ skipped = 1
    /\ \E k \in 1..pos : IsBlankLine(file[k])

(* C2: between lines and in the returned report, the counts of the status  *)
(* table add up to total_requests.                                         *)
C2_StatusSumIsTotal ==
    /\ pc \in {"reading", "done"} => CounterSum(status_counter) = total
    /\ report # <<>> =>
          CounterSum(report[1].status_counts) = report[1].total_requests

\* A report with two status codes, two requests and a skipped line.
C2_Witness ==
    /\ report # <<>>
    /\ report[1].total_requests = 2 /\ Len(report[1].status_counts) = 2
    /\ report[1].skipped_lines = 1

(* C3, as claimed: each of top_paths and top_ips is the first top_n        *)
(* entries, and top_user_agents the first 5, of its table ranked by count  *)
(* and then by first appearance, so no list is longer than min(N, keys).   *)
C3_TopListsAsClaimed ==
    report # <<>> =>
        /\ IsRanked(report[1].top_paths, "path")
        /\ HasFirst(report[1].top_paths, top_n, "path")
        /\ Len(report[1].top_paths) <= Least(top_n, Cardinality(SeenKeys("path")))
        /\ IsRanked(report[1].top_ips, "ip")
        /\ HasFirst(report[1].top_ips, top_n, "ip")
        /\ Len(report[1].top_ips) <= Least(top_n, Cardinality(SeenKeys("ip")))
        /\ IsRanked(report[1].top_user_agents, "agent")
        /\ HasFirst(report[1].top_user_agents, 5, "agent")
        /\ Len(report[1].top_user_agents) <= Least(5, Cardinality(SeenKeys("agent")))

(* C3, amended: the same with max(top_n, 0) for top_n: the lists of paths  *)
(* and addresses hold exactly the first min(max(top_n, 0), keys) entries   *)
(* of the ranking, the list of agents the first min(5, agents).            *)
C3_TopListsRanked ==
    report # <<>> =>
        /\ IsRanked(report[1].top_paths, "path")
        /\ Len(report[1].top_paths)
              = Least(Most(top_n, 0), Cardinality(SeenKeys("path")))
        /\ IsRanked(report[1].top_ips, "ip")
        /\ Len(report[1].top_ips)
              = Least(Most(top_n, 0), Cardinality(SeenKeys("ip")))
        /\ IsRanked(report[1].top_user_agents, "agent")
        /\ Len(report[1].top_user_agents)
              = Least(5, Cardinality(SeenKeys("agent")))

\* Six agents of which five are listed, one of them seen twice, and two of
\* six paths listed for top_n = 2: the second by a tie that first appearance
\* decides.
C3_Witness ==
    /\ report # <<>> /\ top_n = 2
    /\ Cardinality(SeenKeys("agent")) = 6
    /\ Len(report[1].top_user_agents) = 5
    /\ Len(report[1].top_paths) = 2
    /\ report[1].top_paths[1][2] = 2 /\ report[1].top_paths[2][2] = 1
    /\ Min(Hits("path", report[1].top_paths[1][1])) > 1

(* C4, as claimed: a pass of the loop on a line that matches the grammar   *)
(* adds 1 to total_requests and 1 to one key of each table (status, client *)
(* address, effective path, user agent), and changes nothing else.         *)
C4_MatchedLineCounted ==
    [][(TakesLine /\ Matches(file[pos + 1])) =>
          /\ total' = total + 1
          /\ skipped' = skipped
          /\ IncOne(status_counter, status_counter', MatchOf(file[pos + 1]).status)
          /\ IncOne(ip_counter, ip_counter', MatchOf(file[pos + 1]).ip)
          /\ IncOne(path_counter, path_counter', KeyIn("path", file[pos + 1]))
          /\ IncOne(agent_counter, agent_counter', AgentKey(MatchOf(file[pos + 1])))
          /\ CounterSum(status_counter') = total'
          /\ CounterSum(ip_counter') = total'
          /\ CounterSum(path_counter') = total'
          /\ CounterSum(agent_counter') = total']_vars

(* C5: a pass of the loop on a non-blank line that does not match adds 1   *)
(* to skipped_lines, leaves total_requests and the four tables as they     *)
(* were, and leaves the loop running.                                      *)
C5_UnmatchedLineSkipped ==
    [][(TakesLine /\ ~IsBlankLine(file[pos + 1]) /\ ~Matches(file[pos + 1])) =>
          /\ skipped' = skipped + 1
          /\ total' = total
          /\ TablesUnchanged
          /\ error' = "none"
          /\ pc' = "reading"]_vars

\* An unmatched line was skipped and the line after it was counted.
C5_Witness ==
    /\ pc = "reading" /\ pos >= 2
    /\ ~IsBlankLine(file[pos - 1]) /\ ~Matches(file[pos - 1])
    /\ Counted(file[pos])
    /\ skipped >= 1 /\ total >= 1

(* C6: a report exists only when open succeeded and every line of the file *)
(* was read without error; a failed open or read leaves no report, and     *)
(* open is attempted once.                                                 *)
C6_NoPartialReport ==
    /\ opens <= 1
    /\ report # <<>> => pc = "done" /\ pos = Len(file) /\ error = "none"
    /\ error # "none" => pc = "failed" /\ report = <<>>
    /\ pc = "done" => report # <<>>

\* A read error after a counted line, with lines still unread: no report.
C6_Witness ==
    /\ pc = "failed" /\ error = "OSError" /\ opens = 1
    /\ pos >= 1 /\ pos < Len(file) /\ total >= 1
    /\ report = <<>>

(* C7: in a returned report top_404 is the count under "404" in its        *)
(* status_counts, and 0 when that key is not in the table.                 *)
C7_Top404FromTable ==
    report # <<>> =>
        /\ \A k \in DOMAIN report[1].status_counts :
              report[1].status_counts[k][1] = <<"4", "0", "4">> =>
                  report[1].top_404 = report[1].status_counts[k][2]
        /\ (\A k \in DOMAIN report[1].status_counts :
               report[1].status_counts[k][1] # <<"4", "0", "4">>) =>
                  report[1].top_404 = 0

\* A report with two 404 lines and a line of another status.
C7_Witness ==
    /\ report # <<>>
    /\ report[1].top_404 = 2
    /\ Len(report[1].status_counts) = 2

(* C8, as claimed: a counted line adds 1 to the user-agent key "-" when    *)
(* the referrer/agent pair is absent, and to the captured agent text when  *)
(* the pair is present, the empty text included.                           *)
C8_AgentKeyAsClaimed ==
    [][(TakesLine /\ Matches(file[pos + 1]) /\ pc' = "reading") =>
          IncOne(agent_counter, agent_counter',
                 IF MatchOf(file[pos + 1]).paired
                 THEN MatchOf(file[pos + 1]).agent
                 ELSE Dash)]_vars

-----------------------------------------------------------------------------
(* Merging the aggregates of shards (C9).                                  *)

\* The table c with n more under key.
AddCount(c, key, n) ==
    IF key \in Keys(c)
    THEN [c EXCEPT ![IndexOf(c, key)] = <<key, @[2] + n>>]
    ELSE Append(c, <<key, n>>)

\* The tables c and d added key by key.
RECURSIVE MergeCounters(_, _)
MergeCounters(c, d) ==
    IF d = <<>> THEN c
    ELSE MergeCounters(AddCount(c, d[1][1], d[1][2]), Tail(d))

\* Two aggregates added: the counters, and the tables key by key.
Merge(x, y) ==
    [total |-> x.total + y.total,
     skipped |-> x.skipped + y.skipped,
     status |-> MergeCounters(x.status, y.status),
     ip |-> MergeCounters(x.ip, y.ip),
     path |-> MergeCounters(x.path, y.path),
     agent |-> MergeCounters(x.agent, y.agent),
     error |-> IF x.error # "none" THEN x.error ELSE y.error]

\* The key-to-count mapping of a table, without the order of its keys.
Mapping(c) == {c[k] : k \in DOMAIN c}

\* The same counters and the same key-to-count mappings.
SameCounts(x, y) ==
    /\ x.total = y.total /\ x.skipped = y.skipped
    /\ Mapping(x.status) = Mapping(y.status)
    /\ Mapping(x.ip) = Mapping(y.ip)
    /\ Mapping(x.path) = Mapping(y.path)
    /\ Mapping(x.agent) = Mapping(y.agent)

\* The orders the n lines taken so far can be put in.
Orders(n) == {f \in [1..n -> 1..n] : \A x, y \in 1..n : f[x] = f[y] => x = y}

\* The aggregate of lines from + 1 .. to of the lines taken, in order f.
Shard(f, from, to) ==
    Fold(EmptyAggregate, [k \in 1..(to - from) |-> file[f[from + k]]])

(* C9: for every order of the lines taken and every cut of them into three *)
(* shards (empty ones included), the shard aggregates merged in either     *)
(* tree shape and in either order have the counters and mappings of the    *)
(* whole run.                                                              *)
C9_ShardsMergeToWhole ==
    pc \in {"reading", "done"} =>
        \A f \in Orders(pos) :
            \A a \in 0..pos : \A b \in a..pos :
                /\ SameCounts(Merge(Merge(Shard(f, 0, a), Shard(f, a, b)),
                                    Shard(f, b, pos)), Aggregate)
                /\ SameCounts(Merge(Shard(f, 0, a),
                                    Merge(Shard(f, a, b), Shard(f, b, pos))),
                              Aggregate)
                /\ SameCounts(Merge(Shard(f, b, pos),
                                    Merge(Shard(f, a, b), Shard(f, 0, a))),
                              Aggregate)

\* Three lines taken, two of them with the same address and status and one
\* skipped, so that keys meet in the merges.
C9_Witness ==
    /\ pc = "done" /\ pos = 3 /\ total = 2 /\ skipped = 1
    /\ Len(ip_counter) = 1 /\ Len(path_counter) = 2

-----------------------------------------------------------------------------
(* The health monitor (C10).                                               *)

\* Some check sampled some metric above its threshold.
Breached ==
    \/ peak.cpu > cpu_threshold \/ peak.memory > mem_threshold
    \/ peak.disk > disk_threshold \/ peak.processes > proc_threshold

\* main has left through the exit after its loop.
LoopExited == m_pc = "exited" /\ exit_code # 2

=============================================================================
